---- MODULE Spec2Model ----
(***************************************************************************)
(* Epic Toolbag: a plugin of a 3D content-creation host.  The model covers *)
(* the plugin lifecycle (class and property registration), the remeshing   *)
(* operator and its numeric heuristics, the asset import operators, the    *)
(* HDRI operators of the render tools, and the shader effect operators.    *)
(*                                                                         *)
(* The host is single-threaded and calls one handler at a time, so every   *)
(* handler is one atomic action.  A host call that may fail is modelled by *)
(* a nondeterministic choice of the step that raises.                      *)
(***************************************************************************)
EXTENDS Integers, Sequences, FiniteSets, TLC

VARIABLES
    \* ---- lifecycle (src/__init__.py, src/panels.py, src/imports.py, src/remesh.py)
    registered,            \* classes currently registered with the host
    sceneProps,            \* properties attached to bpy.types.Scene
    wmProps,               \* properties attached to bpy.types.WindowManager
    preview_collections,   \* panels.preview_collections: key -> set of names
    load_post,             \* number of add-on handlers in bpy.app.handlers.load_post
    enabled,               \* TRUE between register() and unregister()
    cycles,                \* completed register() calls
    hdriDir,               \* the bundled HDRI directory on disk
    hostQuirks,            \* host behaviours the source cannot decide
    \* ---- remeshing heuristics (src/remesh.py)
    calc,                  \* the last heuristic evaluated: its inputs and result
    \* ---- remeshing operator (src/remesh.py)
    objects,               \* bpy.data.objects: a sequence of object records
    active,                \* index of the active object, 0 when there is none
    advanced_remesh_log,   \* scene.epic_advanced_remesh.advanced_remesh_log
    remesh_performance_metrics, \* ... .remesh_performance_metrics
    op,                    \* the last operator execution and what it returned
    \* ---- asset import (src/imports.py)
    assets_dir,            \* preference assets_dir: a path, <<>> when empty
    assets_type,           \* preference assets_type
    tempDirs,              \* temporary directories that exist on disk
    tmpCount,              \* temporary directories created so far
    imp,                   \* the last import operator execution
    \* ---- render tools (src/render.py)
    hdri_enum,             \* scene.hdri_enum: the selected HDRI name, "" when none
    listdir,               \* the order in which os.listdir names the HDRI files
    world,                 \* scene.world: its use_nodes flag, nodes and links
    rop,                   \* the last render operator execution
    \* ---- shader effects (src/shader.py)
    shaded,                \* the scene's objects: material slots and modifiers
    active_object,         \* index of context.active_object, 0 when there is none
    node_groups,           \* names in bpy.data.node_groups
    materials,             \* names in bpy.data.materials
    library,               \* the add-on's source/*.blend files on disk
    applied_fx,            \* what each FINISHED apply operator added, per object
    shader_ops,            \* shader operators executed so far
    sop                    \* the last shader operator execution

lifecycleVars == <<registered, sceneProps, wmProps, preview_collections,
                   load_post, enabled, cycles, hdriDir, hostQuirks>>

remeshVars == <<objects, active, advanced_remesh_log, remesh_performance_metrics, op>>

importVars == <<assets_dir, assets_type, tempDirs, tmpCount, imp>>

renderVars == <<hdri_enum, listdir, world, rop>>

shaderVars == <<shaded, active_object, node_groups, materials, library,
                applied_fx, shader_ops, sop>>

vars == <<lifecycleVars, calc, remeshVars, importVars, renderVars, shaderVars>>

\* Number of register()/unregister() cycles explored.
MaxCycles == 2

\* detail_preservation is a float in [0, 100]: the model takes the values
\* k / DetailScale for k in 0 .. 100 * DetailScale.
DetailScale == 2

\* Polygon counts explored: 0, PolyStep, 2 * PolyStep, ..., MaxPolySteps * PolyStep.
PolyStep == 40
MaxPolySteps == 30

\* Quad counts explored: 0, QuadStep, ..., MaxQuadSteps * QuadStep.
QuadStep == 25
MaxQuadSteps == 200

\* Objects a scene may hold: remeshing stops adding duplicates at this size.
MaxObjects == 4

\* Temporary directories created before the import operators stop.
MaxTempDirs == 2

\* Shader operators executed before the exploration stops.
MaxShaderOps == 3

-----------------------------------------------------------------------------
(***************************************************************************)
(* Remeshing heuristics.  The source computes in floating point; the model *)
(* computes the same expressions in exact rational arithmetic, a value     *)
(* being the pair of a numerator and a denominator.  int() of a            *)
(* non-negative value is the floor.  The one place where rounding can      *)
(* change an integer result is int(target_count * normalized_detail): when *)
(* the exact product is a whole number the float product may fall just     *)
(* below it, which the parameter ulp (0 or 1) stands for.                  *)
(***************************************************************************)

Max(a, b) == IF a >= b THEN a ELSE b
Min(a, b) == IF a <= b THEN a ELSE b

DetailGrid == 0 .. 100 * DetailScale
PolyGrid == {k * PolyStep : k \in 0 .. MaxPolySteps}
QuadGrid == {k * QuadStep : k \in 0 .. MaxQuadSteps}

\* RemeshIntelligentSettings.calculate_quad_count, detail = dk / DetailScale.
calculate_quad_count(dk, original_poly_count, ulp) ==
    LET target_count == original_poly_count \div 2
        product == target_count * dk
        exact == product \div (100 * DetailScale)
        quad_count == IF product % (100 * DetailScale) = 0 /\ exact >= 1
                      THEN exact - ulp ELSE exact
        min_quads == Max(10, original_poly_count \div 20)
    IN  Max(min_quads, Min(quad_count, target_count))

\* DensityDetails.calculate_octree_depth, detail = dk / DetailScale.
dd_calculate_octree_depth(dk) ==
    LET min_depth == 2
        max_depth == 8
    IN  (min_depth * 100 * DetailScale + (max_depth - min_depth) * dk)
            \div (100 * DetailScale)

\* DensityDetails.calculate_voxel_size: the value num / den, with
\* min_size = 1/100 and max_size = 10/100.
dd_calculate_voxel_size(dk) ==
    [num |-> 100 * DetailScale + 9 * (100 * DetailScale - dk),
     den |-> 10000 * DetailScale]

calculate_octree_depth_unclamped_below(quad_count, current_poly_count) ==
    LET max_depth == 8
        num == IF current_poly_count > 0 THEN quad_count * quad_count ELSE quad_count
        den == IF current_poly_count > 0 THEN 500 * current_poly_count ELSE 500
    IN  IF num > max_depth * den THEN max_depth ELSE num \div den

\* AdvancedRemesher.calculate_octree_depth: base_depth = num / den.
calculate_octree_depth(quad_count, current_poly_count) ==
    LET min_depth == 2
        max_depth == 8
        num == IF current_poly_count > 0 THEN quad_count * quad_count ELSE quad_count
        den == IF current_poly_count > 0 THEN 500 * current_poly_count ELSE 500
    IN  IF num <= min_depth * den THEN min_depth
        ELSE IF num >= max_depth * den THEN max_depth
        ELSE num \div den

\* AdvancedRemesher.calculate_voxel_size: current_poly_count is not used.
calculate_voxel_size(quad_count, current_poly_count) ==
    [num |-> 100 + 9 * (100 - quad_count), den |-> 10000]

\* fn: the heuristic; a, b, c: its inputs; num / den: its result; num2: a
\* second result, or the quad count the result was computed from.
Result(fn, a, b, c, num, den, num2) ==
    [fn |-> fn, a |-> a, b |-> b, c |-> c, num |-> num, den |-> den, num2 |-> num2]

Idle == Result("idle", 0, 0, 0, 0, 1, 0)

NumericIdle == calc = Idle

\* The result shown to the user is dropped before the next evaluation.
Discard == calc # Idle /\ calc' = Idle

EvalQuadCount ==
    \E dk \in DetailGrid, n \in PolyGrid, ulp \in {0, 1} :
        calc' = Result("quad_count", dk, n, ulp, calculate_quad_count(dk, n, ulp), 1, 0)

\* The quad count at two detail levels dk < dk2 of the same mesh.
EvalQuadCountPair ==
    \E dk \in DetailGrid, n \in PolyGrid, ulp \in {0, 1} :
        \E dk2 \in {dk + 1, 100 * DetailScale} :
            /\ dk < dk2
            /\ dk2 \in DetailGrid
            /\ calc' = Result("quad_count_pair", dk, n, dk2,
                              calculate_quad_count(dk, n, ulp), 1,
                              calculate_quad_count(dk2, n, ulp))

EvalOctreeDepth ==
    \E q \in QuadGrid, p \in PolyGrid :
        calc' = Result("octree_depth", q, p, 0, calculate_octree_depth(q, p), 1, 0)

EvalDensityOctreeDepth ==
    \E dk \in DetailGrid :
        calc' = Result("dd_octree_depth", dk, 0, 0, dd_calculate_octree_depth(dk), 1, 0)

EvalDensityVoxelSize ==
    \E dk \in DetailGrid :
        LET v == dd_calculate_voxel_size(dk)
        IN  calc' = Result("dd_voxel_size", dk, 0, 0, v.num, v.den, 0)

\* apply_remesh_modifier in VOXEL mode on a mesh of n polygons: the quad count
\* is the one execute computes with calculate_quad_count.
EvalVoxelSize ==
    \E dk \in DetailGrid, n \in PolyGrid, ulp \in {0, 1} :
        LET q == calculate_quad_count(dk, n, ulp)
            v == calculate_voxel_size(q, n)
        IN  calc' = Result("voxel_size", dk, n, ulp, v.num, v.den, q)

NumericNext ==
    \/ calc = Idle /\ EvalQuadCount /\ UNCHANGED <<lifecycleVars, remeshVars, importVars, renderVars, shaderVars>>
    \/ calc = Idle /\ EvalQuadCountPair /\ UNCHANGED <<lifecycleVars, remeshVars, importVars, renderVars, shaderVars>>
    \/ calc = Idle /\ EvalOctreeDepth /\ UNCHANGED <<lifecycleVars, remeshVars, importVars, renderVars, shaderVars>>
    \/ calc = Idle /\ EvalDensityOctreeDepth /\ UNCHANGED <<lifecycleVars, remeshVars, importVars, renderVars, shaderVars>>
    \/ calc = Idle /\ EvalDensityVoxelSize /\ UNCHANGED <<lifecycleVars, remeshVars, importVars, renderVars, shaderVars>>
    \/ calc = Idle /\ EvalVoxelSize /\ UNCHANGED <<lifecycleVars, remeshVars, importVars, renderVars, shaderVars>>
    \/ Discard /\ UNCHANGED <<lifecycleVars, remeshVars, importVars, renderVars, shaderVars>>

-----------------------------------------------------------------------------
(***************************************************************************)
(* Plugin lifecycle                                                        *)
(***************************************************************************)

panels_classes == <<"panels.Preferences", "panels.EpicToolBagAddonPanel">>

imports_classes ==
    <<"imports.Preferences", "imports.ConfirmAssetsDir", "imports.ClearAssetsDir",
      "imports.ImportZIPAssets", "imports.ImportBlendAssets",
      "imports.ImportFBXAssets", "imports.ImportSTLAssets">>

shader_classes ==
    <<"UpdateGeometryNodes", "ApplyCelShading", "CreateOutline", "ApplyDitherFX",
      "RemoveShaderEffect", "EditImageThumbnail", "RemoveActiveMaterialSlot",
      "RefreshMaterialInputs", "ToggleExpandColumn", "ToggleExpandUVCheck",
      "PreviewUVEditing", "RevertWorkspace", "AddCheckerTexture",
      "RemoveCheckerTexture", "AddColorRampPoint", "AddPrincipledMaterial",
      "ExpandMiscSection", "CollapseMiscSection", "CreatePrimitiveCube",
      "CreatePrimitiveUVSphere", "CreatePrimitiveCylinder", "CreatePrimitiveCone",
      "CreatePrimitiveTorus", "CreatePrimitivePlane", "AddSpecificModifier",
      "CreateText", "AddTextMaterial", "SmartUVUnwrap", "MarkSharp", "ClearSharp",
      "MarkSeam", "ClearSeam", "ExpandTopologySection", "CollapseTopologySection",
      "ToggleExpandShaderTools", "ToggleExpandTopologyTools", "ClearSharpAndSeam",
      "convert_text_to_mesh">>

render_classes ==
    <<"AddOrApplyHDRI", "RemoveHDRI", "CreateLight", "RemoveLight",
      "CreateCamera", "RemoveCamera", "NavigateHDRI">>

remesh_classes == <<"DensityDetails", "AdvancedRemesher">>

Range(s) == {s[i] : i \in 1..Len(s)}

Reverse(s) == [i \in 1..Len(s) |-> s[Len(s) + 1 - i]]

AllClasses ==
    Range(panels_classes) \cup Range(imports_classes) \cup Range(shader_classes)
        \cup Range(render_classes) \cup Range(remesh_classes)

\* Both Preferences classes are AddonPreferences with bl_idname = __package__.
SameIdname(cls) ==
    IF cls = "panels.Preferences" THEN {"imports.Preferences"}
    ELSE IF cls = "imports.Preferences" THEN {"panels.Preferences"}
    ELSE {}

\* Properties add_properties() attaches, in source order.
SceneAdded ==
    {"custom_enum", "modifier_view_mode", "topology_view_mode", "expand_effects",
     "cel_shading_settings", "shade_steps", "dither_fx_settings", "dither_pattern",
     "dither_scale", "hdri_enum", "expand_column", "expand_render", "hdri_files",
     "world_transparent", "hdri_rotation_degrees", "expand_light_controls",
     "outline_color", "expand_shader_tools", "expand_topology_tools",
     "expand_imports", "expand_topology_section", "expand_camera",
     "expand_set_controls", "expand_render_tools"}

WindowManagerAdded == {"active_material_index", "previous_workspace_name"}

props_to_remove ==
    {"custom_enum", "expand_column", "expand_render", "hdri_files",
     "world_transparent", "hdri_rotation_degrees", "hdri_enum",
     "expand_light_controls", "outline_color", "modifier_view_mode",
     "expand_uv_outline", "expand_imports", "expand_camera", "expand_effects",
     "cel_shading_settings", "shade_steps", "dither_fx_settings", "dither_pattern",
     "dither_scale", "expand_set_controls", "expand_render_tools",
     "topology_view_mode", "expand_shader_tools", "expand_topology_tools"}

\* The HDRI files the bundled directory may hold.
HdriNames == {"sky.hdr", "studio.exr", "dusk.hdr"}

EmptyDict == [k \in {} |-> {}]

\* The host-side state the lifecycle functions act on.
HostState(reg, scene, wm, pc, lp) ==
    [reg |-> reg, scene |-> scene, wm |-> wm, pc |-> pc, lp |-> lp]

Ok(h) == [h |-> h, raised |-> FALSE]
Raise(h) == [h |-> h, raised |-> TRUE]

\* bpy.utils.register_class: a class already registered is refused; registering
\* a class whose bl_idname is taken may make the host drop the earlier class.
register_class(h, cls) ==
    IF cls \in h.reg THEN Raise(h)
    ELSE Ok([h EXCEPT !.reg =
                 (IF "evict" \in hostQuirks THEN h.reg \ SameIdname(cls) ELSE h.reg)
                     \cup {cls}])

\* bpy.utils.unregister_class: a class that is not registered is refused.
unregister_class(h, cls) ==
    IF cls \notin h.reg THEN Raise(h)
    ELSE Ok([h EXCEPT !.reg = h.reg \ {cls}])

\* for cls in classes: register_class(cls), stopping at the first exception.
RECURSIVE RegisterLoop(_, _, _)
RegisterLoop(h, classes, i) ==
    IF i > Len(classes) THEN Ok(h)
    ELSE LET r == register_class(h, classes[i])
         IN  IF r.raised THEN r ELSE RegisterLoop(r.h, classes, i + 1)

\* for cls in classes: unregister_class(cls), stopping at the first exception.
RECURSIVE UnregisterLoop(_, _, _)
UnregisterLoop(h, classes, i) ==
    IF i > Len(classes) THEN Ok(h)
    ELSE LET r == unregister_class(h, classes[i])
         IN  IF r.raised THEN r ELSE UnregisterLoop(r.h, classes, i + 1)

\* panels.load_hdri_previews(path): the collection is created before the
\* directory is looked at; a file is loaded only with its thumbnail beside it.
load_hdri_previews(pc, dir) ==
    LET pc0 == IF "hdri_previews" \notin DOMAIN pc
               THEN [k \in {"hdri_previews", "hdri_paths"} |-> {}]
               ELSE pc
        fresh == {f \in dir.files : f \notin pc0["hdri_previews"] /\ f \in dir.thumbs}
    IN  IF ~dir.exists THEN pc0
        ELSE [k \in DOMAIN pc0 |->
                 IF k \in {"hdri_previews", "hdri_paths"} THEN pc0[k] \cup fresh
                 ELSE pc0[k]]

add_properties(h) ==
    Ok([h EXCEPT !.scene = h.scene \cup SceneAdded,
                 !.pc = load_hdri_previews(h.pc, hdriDir),
                 !.wm = h.wm \cup WindowManagerAdded])

\* panels.unload_hdri_previews: every value of the dictionary is handed to
\* previews.remove; "hdri_paths" holds a plain dict, which the host may refuse.
unload_hdri_previews(h) ==
    IF "hdri_paths" \in DOMAIN h.pc /\ "remove_refuses_dict" \in hostQuirks
    THEN Raise(h)
    ELSE Ok([h EXCEPT !.pc = EmptyDict])

\* panels.remove_properties: the listed properties are removed when present;
\* the closing `del Scene.hdri_enum` deletes an attribute the loop has already
\* removed, and deleting a missing attribute raises.
remove_properties(h) ==
    LET h1 == [h EXCEPT !.scene = h.scene \ props_to_remove,
                        !.wm = h.wm \ {"previous_workspace_name"}]
    IN  IF "hdri_previews" \in DOMAIN h1.pc
        THEN IF "hdri_enum" \in h1.scene
             THEN Ok([h1 EXCEPT !.scene = h1.scene \ {"hdri_enum"}])
             ELSE Raise(h1)
        ELSE Ok(h1)

panels_register(h) ==
    LET r == RegisterLoop(h, panels_classes, 1)
    IN  IF r.raised THEN r ELSE add_properties(r.h)

panels_unregister_props_first(h) ==
    LET p == remove_properties(h)
    IN  IF p.raised THEN p
        ELSE LET r == UnregisterLoop(p.h, Reverse(panels_classes), 1)
             IN  IF r.raised THEN r ELSE unload_hdri_previews(r.h)

panels_unregister(h) ==
    LET r == UnregisterLoop(h, Reverse(panels_classes), 1)
    IN  IF r.raised THEN r
        ELSE LET p == remove_properties(r.h)
             IN  IF p.raised THEN p ELSE unload_hdri_previews(p.h)

\* imports.register_handlers appends setup_default_principled_bsdf to load_post.
register_handlers(h) == Ok([h EXCEPT !.lp = h.lp + 1])

imports_register(h) ==
    LET r == RegisterLoop(h, imports_classes, 1)
    IN  IF r.raised THEN r ELSE register_handlers(r.h)

imports_unregister(h) == UnregisterLoop(h, Reverse(imports_classes), 1)

shader_register(h) == RegisterLoop(h, shader_classes, 1)
shader_unregister(h) == UnregisterLoop(h, Reverse(shader_classes), 1)

render_register(h) == RegisterLoop(h, render_classes, 1)
render_unregister(h) == UnregisterLoop(h, Reverse(render_classes), 1)

remesh_register(h) ==
    LET r == RegisterLoop(h, remesh_classes, 1)
    IN  IF r.raised THEN r
        ELSE Ok([r.h EXCEPT !.scene = r.h.scene \cup {"epic_advanced_remesh"}])

remesh_unregister(h) ==
    IF "epic_advanced_remesh" \notin h.scene THEN Raise(h)
    ELSE UnregisterLoop([h EXCEPT !.scene = h.scene \ {"epic_advanced_remesh"}],
                        Reverse(remesh_classes), 1)

\* try: module.register() / module.unregister(); except Exception: print(...)
Swallow(r) == r.h

\* __init__.register
addon_register(h) ==
    LET h1 == Swallow(panels_register(h))
        h2 == Swallow(imports_register(h1))
        h3 == Swallow(shader_register(h2))
        h4 == Swallow(render_register(h3))
        h5 == Swallow(remesh_register(h4))
    IN  Swallow(add_properties(h5))

\* __init__.unregister
addon_unregister(h) ==
    LET h0 == Swallow(remove_properties(h))
        h1 == Swallow(remesh_unregister(h0))
        h2 == Swallow(render_unregister(h1))
        h3 == Swallow(shader_unregister(h2))
        h4 == Swallow(imports_unregister(h3))
    IN  Swallow(panels_unregister(h4))

CurrentHost ==
    HostState(registered, sceneProps, wmProps, preview_collections, load_post)

SetHost(h) ==
    /\ registered' = h.reg
    /\ sceneProps' = h.scene
    /\ wmProps' = h.wm
    /\ preview_collections' = h.pc
    /\ load_post' = h.lp

\* The directory either is missing or holds some HDRI files, some with a thumbnail.
HdriDirStates ==
    {[exists |-> FALSE, files |-> {}, thumbs |-> {}]} \cup
    {[exists |-> TRUE, files |-> fs, thumbs |-> ts] :
        fs \in SUBSET HdriNames, ts \in SUBSET HdriNames}

LifecycleInit ==
    /\ registered = {}
    /\ sceneProps = {}
    /\ wmProps = {}
    /\ preview_collections = EmptyDict
    /\ load_post = 0
    /\ enabled = FALSE
    /\ cycles = 0
    /\ hdriDir \in HdriDirStates
    /\ hostQuirks \in SUBSET {"evict", "remove_refuses_dict"}

\* The add-on before it is first enabled, on a host of fixed behaviour.
LifecycleIdle ==
    /\ registered = {}
    /\ sceneProps = {}
    /\ wmProps = {}
    /\ preview_collections = EmptyDict
    /\ load_post = 0
    /\ enabled = FALSE
    /\ cycles = 0
    /\ hdriDir = [exists |-> FALSE, files |-> {}, thumbs |-> {}]
    /\ hostQuirks = {}

\* The host enables the add-on.
Register ==
    /\ ~enabled
    /\ cycles < MaxCycles
    /\ SetHost(addon_register(CurrentHost))
    /\ enabled' = TRUE
    /\ cycles' = cycles + 1
    /\ UNCHANGED <<hdriDir, hostQuirks>>

\* The host disables the add-on.
Unregister ==
    /\ enabled
    /\ SetHost(addon_unregister(CurrentHost))
    /\ enabled' = FALSE
    /\ UNCHANGED <<cycles, hdriDir, hostQuirks>>

\* The user adds or removes files of the HDRI directory while the add-on is off.
ChangeHdriDir ==
    /\ ~enabled
    /\ \E d \in HdriDirStates : d # hdriDir /\ hdriDir' = d
    /\ UNCHANGED <<registered, sceneProps, wmProps, preview_collections,
                   load_post, enabled, cycles, hostQuirks>>

LifecycleNext ==
    \/ Register /\ UNCHANGED <<calc, remeshVars, importVars, renderVars, shaderVars>>
    \/ Unregister /\ UNCHANGED <<calc, remeshVars, importVars, renderVars, shaderVars>>
    \/ ChangeHdriDir /\ UNCHANGED <<calc, remeshVars, importVars, renderVars, shaderVars>>

\* C1: after register() followed by unregister(), no class of the five modules
\* is still registered with the host.
C1_NoClassLeftRegistered ==
    (~enabled /\ cycles > 0) => registered \cap AllClasses = {}

\* C1 witness: an unregister() has completed on a host that dropped
\* panels.Preferences when imports.Preferences took its bl_idname.
C1_Witness ==
    ~enabled /\ cycles > 0 /\ "evict" \in hostQuirks /\ load_post > 0

\* C2: after register() followed by unregister(), every property the add-on
\* attached to Scene and WindowManager is gone and preview_collections is empty.
C2_AllPropertiesRemoved ==
    (~enabled /\ cycles > 0) =>
        /\ sceneProps \cap (SceneAdded \cup {"epic_advanced_remesh"}) = {}
        /\ wmProps \cap WindowManagerAdded = {}
        /\ preview_collections = EmptyDict

-----------------------------------------------------------------------------
(***************************************************************************)
(* The remeshing operator.  An object record keeps what the operator reads *)
(* and writes: the object type, the polygon and vertex counts of its mesh, *)
(* whether its face normals are planar, the custom key "RemeshApplied",    *)
(* the hidden flag and the name (k >= 0 for "AutoRemesh" / "AutoRemesh.00k"*)
(* and -1 for any other name).  remeshes counts the FINISHED executions    *)
(* the object was the source of; the operator never reads it.              *)
(***************************************************************************)

Mesh(polys, verts, planar) ==
    [type |-> "MESH", polys |-> polys, verts |-> verts, planar |-> planar,
     applied |-> FALSE, hidden |-> FALSE, name |-> -1, remeshes |-> 0]

Light ==
    [type |-> "LIGHT", polys |-> 0, verts |-> 0, planar |-> FALSE,
     applied |-> FALSE, hidden |-> FALSE, name |-> -1, remeshes |-> 0]

\* The scenes the operator starts from.
Scenes ==
    { <<Mesh(12, 8, FALSE), Light>>,
      <<Mesh(2000, 1002, FALSE), Mesh(0, 0, FALSE)>>,
      <<Mesh(4, 9, TRUE), Mesh(0, 3, FALSE)>> }

\* detail_preservation values the operator is run with (in 1 / DetailScale):
\* 0 % and 100 %, where the float product of calculate_quad_count is exact.
DetailSamples == {0, 100 * DetailScale}

NoOp ==
    [name |-> "none", tick |-> FALSE, ret |-> "NONE", reports |-> {}, src |-> 0,
     dup |-> 0, raisedAt |-> "none"]

\* RemeshAnalytics.calculate_mesh_complexity divides by vertex_count.
complexity_raises(obj) == obj.verts = 0

is_complex(obj) == obj.polys > 1000

\* RemeshIntelligentSettings.detect_planar_surface: the mean of no angle at
\* all is not a number, and compares FALSE.
is_planar(obj) == obj.polys >= 2 /\ obj.planar

\* AdvancedRemesher.get_unique_name("AutoRemesh") as the index k of the name.
RECURSIVE FirstFreeIndex(_, _)
FirstFreeIndex(names, index) ==
    IF index \in names THEN FirstFreeIndex(names, index + 1) ELSE index

get_unique_name(objs) ==
    LET existing_names == {objs[i].name : i \in 1..Len(objs)}
    IN  IF 0 \notin existing_names THEN 0 ELSE FirstFreeIndex(existing_names, 1)

\* duplicate_object: the copy carries the custom keys of its source and is
\* linked visible under a name of the host's choosing.
duplicate_object(objs, src) ==
    Append(objs, [objs[src] EXCEPT !.hidden = FALSE, !.name = -1, !.remeshes = 0])

hide_original_object_unmarked(objs, src) ==
    [objs EXCEPT ![src].hidden = TRUE]

\* AdvancedRemesher.hide_original_object
hide_original_object(objs, src) ==
    [objs EXCEPT ![src].hidden = TRUE, ![src].applied = TRUE]

\* The mesh a modifier leaves behind when the host applies it: the model takes
\* the host to produce the polygons asked for.  The parameters the operator
\* sets on a modifier before applying it (octree depth, voxel size, ratio,
\* factor) are consumed by the host and are not part of an object record; the
\* functions computing them are the heuristics above.
AppliedMesh(objs, i, polys) ==
    [objs EXCEPT ![i].polys = polys, ![i].verts = polys + 2]

\* The steps of perform_remesh and of perform_complex_remesh, one per host call.
StepsSimple ==
    <<"duplicate", "rename", "hide", "remove_modifier", "detect_planar",
      "remesh_new", "remesh_apply", "mark_new", "select", "report">>

StepsComplex ==
    <<"duplicate", "rename", "hide", "remove_modifier", "decimate_new",
      "decimate_apply", "remesh_new", "remesh_apply", "smooth_new",
      "smooth_apply", "mark_new", "select", "report">>

FailSteps ==
    {"none", "complexity", "planar"} \cup Range(StepsSimple) \cup Range(StepsComplex)

\* What one step does to the running state s of an execution; c holds the
\* inputs of the execution.
StepEffect(step, s, c) ==
    CASE step = "duplicate" ->
            [s EXCEPT !.objects = duplicate_object(s.objects, c.src),
                      !.dup = Len(s.objects) + 1]
      [] step = "rename" ->
            [s EXCEPT !.objects[s.dup].name = get_unique_name(s.objects)]
      [] step = "hide" ->
            [s EXCEPT !.objects = hide_original_object(s.objects, c.src)]
      [] step = "decimate_apply" ->
            [s EXCEPT !.objects =
                AppliedMesh(s.objects, s.dup,
                            IF c.polys > 400 THEN c.polys \div 2 ELSE c.polys)]
      [] step = "remesh_apply" ->
            [s EXCEPT !.objects = AppliedMesh(s.objects, s.dup, c.quad)]
      [] step = "mark_new" ->
            [s EXCEPT !.objects[s.dup].applied = TRUE]
      [] step = "select" ->
            [s EXCEPT !.active = s.dup]
      [] step = "report" ->
            [s EXCEPT !.metrics = "metrics", !.reports = s.reports \cup {"INFO"}]
      [] OTHER -> s

\* report_performance analyses both meshes and divides by the polygon count of
\* the original.
StepRaises(step, s, c) ==
    step = "report" /\
        \/ complexity_raises(s.objects[c.src])
        \/ complexity_raises(s.objects[s.dup])
        \/ s.objects[c.src].polys = 0

RECURSIVE RunSteps(_, _, _, _)
RunSteps(steps, i, s, c) ==
    IF i > Len(steps) THEN [s EXCEPT !.ret = "FINISHED"]
    ELSE IF steps[i] = c.fail \/ StepRaises(steps[i], s, c)
         THEN [s EXCEPT !.raisedAt = steps[i]]
         ELSE RunSteps(steps, i + 1, StepEffect(steps[i], s, c), c)

except_handler_reraise(s) ==
    IF s.raisedAt = "none" THEN s ELSE [s EXCEPT !.ret = "RAISED"]

\* except Exception as e: the log takes the error, an ERROR is reported and
\* the operator returns CANCELLED.
except_handler(s) ==
    IF s.raisedAt = "none" THEN s
    ELSE [s EXCEPT !.log = "error", !.reports = s.reports \cup {"ERROR"},
                   !.ret = "CANCELLED"]

\* AdvancedRemesher.execute on the scene (objs, act) with the settings and
\* host outcomes of c.
AdvancedRemesher_execute(objs, act, log, metrics, c) ==
    LET s0 == [objects |-> objs, active |-> act, log |-> log, metrics |-> metrics,
               ret |-> "NONE", reports |-> {}, dup |-> 0, raisedAt |-> "none"]
    IN  IF act = 0 \/ objs[act].type # "MESH"
        THEN [s0 EXCEPT !.ret = "CANCELLED", !.reports = {"ERROR"}]
        ELSE IF objs[act].applied
        THEN [s0 EXCEPT !.ret = "CANCELLED", !.reports = {"WARNING"}]
        ELSE IF c.fail = "complexity" \/ complexity_raises(objs[act])
        THEN except_handler([s0 EXCEPT !.raisedAt = "complexity"])
        ELSE IF c.fail = "planar"
        THEN except_handler([s0 EXCEPT !.raisedAt = "planar"])
        ELSE LET simple == is_planar(objs[act]) \/ ~is_complex(objs[act])
                 cc == [c EXCEPT !.src = act, !.simple = simple,
                                 !.polys = objs[act].polys,
                                 !.quad = calculate_quad_count(c.dk, objs[act].polys,
                                                               c.ulp)]
             IN  except_handler(
                     RunSteps(IF simple THEN StepsSimple ELSE StepsComplex, 1, s0, cc))

RemeshIdle ==
    /\ objects = <<>>
    /\ active = 0
    /\ advanced_remesh_log = ""
    /\ remesh_performance_metrics = ""
    /\ op = NoOp

RemeshInit ==
    /\ objects \in Scenes
    /\ active \in 0..2
    /\ advanced_remesh_log = ""
    /\ remesh_performance_metrics = ""
    /\ op = NoOp

\* Inputs of one execution: detail_preservation as read from the scene and
\* the host call that raises, if any.
ExecuteInputs ==
    [dk : DetailSamples, fail : FailSteps, ulp : {0}, src : {0}, simple : {TRUE},
     polys : {0}, quad : {0}]

\* The user presses "Remesh!".
Execute ==
    /\ Len(objects) < MaxObjects
    /\ \E c \in ExecuteInputs :
          \E r \in {AdvancedRemesher_execute(objects, active, advanced_remesh_log,
                                             remesh_performance_metrics, c)} :
              /\ objects' =
                    IF r.ret = "FINISHED"
                    THEN [r.objects EXCEPT ![active].remeshes = @ + 1]
                    ELSE r.objects
              /\ active' = r.active
              /\ advanced_remesh_log' = r.log
              /\ remesh_performance_metrics' = r.metrics
              /\ op' = [name |-> "execute", tick |-> ~op.tick, ret |-> r.ret,
                        reports |-> r.reports, src |-> active, dup |-> r.dup,
                        raisedAt |-> r.raisedAt]

\* The user makes another object active, or none.
SetActive ==
    /\ \E i \in 0..Len(objects) : i # active /\ active' = i
    /\ UNCHANGED <<objects, advanced_remesh_log, remesh_performance_metrics, op>>

RemeshNext ==
    \/ Execute /\ UNCHANGED <<lifecycleVars, calc, importVars, renderVars, shaderVars>>
    \/ SetActive /\ UNCHANGED <<lifecycleVars, calc, importVars, renderVars, shaderVars>>

-----------------------------------------------------------------------------
(***************************************************************************)
(* Asset import.  A path is a sequence of characters.  The files on disk   *)
(* are a fixed sample: for each path whether it exists, what it holds      *)
(* ("data": not an archive, "zip": a readable archive, "badzip": a corrupt *)
(* archive, "locked": a file the process may not open) and the names of    *)
(* the archive's entries.  ext is the extension as a person reads it, in   *)
(* lower case and without the dot: no operation of the add-on reads it.    *)
(***************************************************************************)

Entry(name, ext) == [name |-> name, ext |-> ext]

File(path, exists, content, entries, ext) ==
    [path |-> path, exists |-> exists, content |-> content, entries |-> entries,
     ext |-> ext]

Files ==
    { File(<<"m", ".", "b", "l", "e", "n", "d">>, TRUE, "data", <<>>, "blend"),
      File(<<"M", ".", "B", "L", "E", "N", "D">>, TRUE, "data", <<>>, "blend"),
      File(<<"m", ".", "f", "b", "x">>, TRUE, "data", <<>>, "fbx"),
      File(<<"m", ".", "S", "t", "l">>, TRUE, "data", <<>>, "stl"),
      File(<<"m", ".", "o", "b", "j">>, TRUE, "data", <<>>, "obj"),
      File(<<"g", ".", "s", "t", "l">>, FALSE, "data", <<>>, "stl"),
      File(<<".", "b", "l", "e", "n", "d">>, TRUE, "data", <<>>, ""),
      File(<<"v", ".", "1", "/", "m">>, TRUE, "data", <<>>, ""),
      File(<<"z", ".", "b", "l", "e", "n", "d">>, TRUE, "zip", <<Entry(<<"a", ".", "t", "x", "t">>, "txt")>>, "blend"),
      File(<<"o", "k", ".", "z", "i", "p">>, TRUE, "zip", <<Entry(<<"a", ".", "b", "l", "e", "n", "d">>, "blend"), Entry(<<"B", ".", "F", "B", "X">>, "fbx"), Entry(<<"c", ".", "s", "t", "l">>, "stl")>>, "zip"),
      File(<<"u", "p", ".", "Z", "I", "P">>, TRUE, "zip", <<Entry(<<"a", ".", "s", "t", "l">>, "stl")>>, "zip"),
      File(<<"m", "i", "x", ".", "z", "i", "p">>, TRUE, "zip", <<Entry(<<"a", ".", "b", "l", "e", "n", "d">>, "blend"), Entry(<<"n", ".", "t", "x", "t">>, "txt")>>, "zip"),
      File(<<"d", "i", "r", ".", "z", "i", "p">>, TRUE, "zip", <<Entry(<<"d", "/">>, ""), Entry(<<"d", "/", "a", ".", "f", "b", "x">>, "fbx")>>, "zip"),
      File(<<"e", ".", "z", "i", "p">>, TRUE, "zip", <<>>, "zip"),
      File(<<"b", "a", "d", ".", "z", "i", "p">>, TRUE, "badzip", <<>>, "zip"),
      File(<<"l", "c", "k", ".", "z", "i", "p">>, TRUE, "locked", <<>>, "zip"),
      File(<<"g", ".", "z", "i", "p">>, FALSE, "zip", <<Entry(<<"a", ".", "b", "l", "e", "n", "d">>, "blend")>>, "zip"),
      File(<<"o", "b", "j", ".", "z", "i", "p">>, TRUE, "zip", <<Entry(<<"a", ".", "f", "b", "x">>, "fbx"), Entry(<<"b", ".", "o", "b", "j">>, "obj")>>, "zip"),
      File(<<"p", ".", "c", "a", "t", "s">>, TRUE, "zip", <<Entry(<<"a", ".", "b", "l", "e", "n", "d">>, "blend")>>, "cats"),
      File(<<"c", "a", "p", ".", "z", "i", "p">>, TRUE, "zip", <<Entry(<<"A", ".", "B", "L", "E", "N", "D">>, "blend")>>, "zip") }

Paths == {f.path : f \in Files}

FileAt(path) == CHOOSE f \in Files : f.path = path

\* str.lower() on the characters file names are written with.
LowerChar(ch) ==
    CASE ch = "A" -> "a" [] ch = "B" -> "b" [] ch = "D" -> "d" [] ch = "E" -> "e"
      [] ch = "F" -> "f" [] ch = "I" -> "i" [] ch = "L" -> "l" [] ch = "M" -> "m"
      [] ch = "N" -> "n" [] ch = "P" -> "p" [] ch = "S" -> "s" [] ch = "T" -> "t"
      [] ch = "X" -> "x" [] ch = "Z" -> "z" [] OTHER -> ch

Lower(str) == [i \in 1..Len(str) |-> LowerChar(str[i])]

\* str.rfind(ch) + 1: the last position of ch, 0 when it does not occur.
RFind(str, ch) ==
    LET at == {i \in 1..Len(str) : str[i] = ch}
    IN  IF at = {} THEN 0 ELSE CHOOSE i \in at : \A j \in at : j <= i

\* os.path.splitext(path)[1]: from the last dot of the last component, unless
\* only dots precede it there.
splitext_ext(path) ==
    LET sep == RFind(path, "/")
        dot == RFind(path, ".")
    IN  IF dot > sep /\ \E k \in (sep + 1)..(dot - 1) : path[k] # "."
        THEN SubSeq(path, dot, Len(path))
        ELSE <<>>

\* str.endswith(suffix)
endswith(str, suffix) ==
    /\ Len(str) >= Len(suffix)
    /\ SubSeq(str, Len(str) - Len(suffix) + 1, Len(str)) = suffix

DotBlend == <<".", "b", "l", "e", "n", "d">>
DotFbx == <<".", "f", "b", "x">>
DotStl == <<".", "s", "t", "l">>
DotObj == <<".", "o", "b", "j">>
DotZip == <<".", "z", "i", "p">>

valid_direct_extensions == {DotBlend, DotFbx, DotStl}

Validation(valid, message, raised) ==
    [valid |-> valid, message |-> message, raised |-> raised]

validate_file_extension_case_sensitive(file_path) ==
    LET f == FileAt(file_path)
        file_ext == splitext_ext(file_path)
        invalid_files ==
            {i \in 1..Len(f.entries) :
                splitext_ext(f.entries[i].name) \notin valid_direct_extensions}
    IN  IF ~f.exists THEN Validation(FALSE, "File does not exist.", FALSE)
        ELSE IF file_ext = DotZip
        THEN IF f.content = "locked" THEN Validation(FALSE, "", TRUE)
             ELSE IF f.content # "zip" THEN Validation(FALSE, "Invalid ZIP file", FALSE)
             ELSE IF invalid_files # {}
             THEN Validation(FALSE, "Invalid files in ZIP", FALSE)
             ELSE Validation(TRUE, "Valid ZIP file", FALSE)
        ELSE IF file_ext \in valid_direct_extensions
        THEN Validation(TRUE, "Valid file", FALSE)
        ELSE Validation(FALSE, "Invalid file type.", FALSE)

\* imports.validate_file_extension: (is_valid, message), or the exception
\* zipfile lets through when the file cannot be opened.
validate_file_extension(file_path) ==
    LET f == FileAt(file_path)
        file_ext == Lower(splitext_ext(file_path))
        invalid_files ==
            {i \in 1..Len(f.entries) :
                Lower(splitext_ext(f.entries[i].name)) \notin valid_direct_extensions}
    IN  IF ~f.exists THEN Validation(FALSE, "File does not exist.", FALSE)
        ELSE IF file_ext = DotZip
        THEN IF f.content = "locked" THEN Validation(FALSE, "", TRUE)
             ELSE IF f.content # "zip" THEN Validation(FALSE, "Invalid ZIP file", FALSE)
             ELSE IF invalid_files # {}
             THEN Validation(FALSE, "Invalid files in ZIP", FALSE)
             ELSE Validation(TRUE, "Valid ZIP file", FALSE)
        ELSE IF file_ext \in valid_direct_extensions
        THEN Validation(TRUE, "Valid file", FALSE)
        ELSE Validation(FALSE, "Invalid file type.", FALSE)

NoCheck == Validation(FALSE, "", FALSE)

Outcome(ret, reports) == [ret |-> ret, reports |-> reports]

AssetTypes == {"ZIP", "BLEND", "FBX", "STL"}

\* The host calls of an import that may raise.
ImportFails == {"none", "extract", "import", "popup", "rmtree", "popup_obj"}

\* The files os.walk finds in the extracted archive, as entry indices.
ExtractedFiles(f) ==
    {i \in 1..Len(f.entries) : ~endswith(f.entries[i].name, <<"/">>)}

SupportedFiles(f) ==
    {i \in ExtractedFiles(f) :
        \/ endswith(f.entries[i].name, DotBlend)
        \/ endswith(f.entries[i].name, DotFbx)
        \/ endswith(f.entries[i].name, DotStl)}

ObjFiles(f) ==
    {i \in ExtractedFiles(f) \ SupportedFiles(f) : endswith(f.entries[i].name, DotObj)}

\* The try block of ImportZIPAssets.execute: whether it raised, and what was
\* reported in it and in the except block.  import_blend, import_fbx and
\* import_stl catch what the host raises and report an ERROR.
ZipTry(filepath, fail) ==
    LET f == FileAt(filepath)
        opened == f.exists /\ f.content = "zip" /\ fail # "extract"
        supported_files_found == SupportedFiles(f) # {}
        popup_raised == ~supported_files_found /\ fail = "popup"
    IN  IF ~opened THEN [raised |-> TRUE, reports |-> {"ERROR"}, imported |-> {}]
        ELSE [raised |-> popup_raised,
              reports |-> {"INFO"}
                  \cup (IF supported_files_found /\ fail = "import" THEN {"ERROR"} ELSE {})
                  \cup (IF ~supported_files_found THEN {"WARNING"} ELSE {})
                  \cup (IF popup_raised THEN {"ERROR"} ELSE {}),
              imported |-> IF fail = "import" THEN {} ELSE SupportedFiles(f)]

ZipOutcome(ret, reports, dirs, temp_dir, imported) ==
    [ret |-> ret, reports |-> reports, dirs |-> dirs, tmp |-> temp_dir,
     imported |-> imported]

ImportZIPAssets_execute_no_finally(filepath, dirs, count, fail) ==
    LET temp_dir == count + 1
        t == ZipTry(filepath, fail)
        f == FileAt(filepath)
        created == dirs \cup {temp_dir}
    IN  IF t.raised
        THEN ZipOutcome("CANCELLED", t.reports, created, temp_dir, t.imported)
        ELSE IF fail = "rmtree"
        THEN ZipOutcome("RAISED", t.reports, created, temp_dir, t.imported)
        ELSE IF ObjFiles(f) # {} /\ fail = "popup_obj"
        THEN ZipOutcome("RAISED", t.reports \cup {"WARNING"}, dirs, temp_dir, t.imported)
        ELSE ZipOutcome("FINISHED",
                        t.reports \cup (IF ObjFiles(f) # {} THEN {"WARNING"} ELSE {}),
                        dirs, temp_dir, t.imported)

\* ImportZIPAssets.execute: mkdtemp, the try block, `finally: rmtree(temp_dir)`
\* and the warning about OBJ files.  An exception of rmtree or of the last
\* popup leaves the operator.
ImportZIPAssets_execute(filepath, dirs, count, fail) ==
    LET temp_dir == count + 1
        t == ZipTry(filepath, fail)
        f == FileAt(filepath)
        created == dirs \cup {temp_dir}
    IN  IF fail = "rmtree"
        THEN ZipOutcome("RAISED", t.reports, created, temp_dir, t.imported)
        ELSE IF t.raised
        THEN ZipOutcome("CANCELLED", t.reports, dirs, temp_dir, t.imported)
        ELSE IF ObjFiles(f) # {} /\ fail = "popup_obj"
        THEN ZipOutcome("RAISED", t.reports \cup {"WARNING"}, dirs, temp_dir, t.imported)
        ELSE ZipOutcome("FINISHED",
                        t.reports \cup (IF ObjFiles(f) # {} THEN {"WARNING"} ELSE {}),
                        dirs, temp_dir, t.imported)

\* ImportBlendAssets.execute: a missing file is reported; what the library
\* loader raises leaves the operator.
ImportBlendAssets_execute(filepath, fail) ==
    IF ~FileAt(filepath).exists THEN Outcome("CANCELLED", {"ERROR"})
    ELSE IF fail = "import" THEN Outcome("RAISED", {})
    ELSE Outcome("FINISHED", {"INFO"})

\* ImportFBXAssets.execute and ImportSTLAssets.execute: one host import call,
\* which cannot read a missing file, then an INFO report.
ImportHostAssets_execute(filepath, fail) ==
    IF ~FileAt(filepath).exists \/ fail = "import" THEN Outcome("RAISED", {})
    ELSE Outcome("FINISHED", {"INFO"})

OperatorOf(type) ==
    CASE type = "ZIP" -> "import_zip_assets"
      [] type = "BLEND" -> "import_blend_assets"
      [] type = "FBX" -> "import_fbx_assets"
      [] type = "STL" -> "import_stl_assets"

\* bpy.ops.epictoolbag.import_*_assets(filepath=assets_dir)
Dispatch(type, filepath, dirs, count, fail) ==
    IF type = "ZIP" THEN ImportZIPAssets_execute(filepath, dirs, count, fail)
    ELSE LET o == IF type = "BLEND" THEN ImportBlendAssets_execute(filepath, fail)
                  ELSE ImportHostAssets_execute(filepath, fail)
         IN  ZipOutcome(o.ret, o.reports, dirs, 0, {})

ImportResult(name, ret, reports, path, check, dispatched, nested, dirs, temp_dir) ==
    [name |-> name, ret |-> ret, reports |-> reports, path |-> path, check |-> check,
     dispatched |-> dispatched, nested |-> nested, dirs |-> dirs, tmp |-> temp_dir]

NoNested == Outcome("NONE", {})

ConfirmAssetsDir_execute_unvalidated(dir, type, dirs, count, fail, strict) ==
    IF dir = <<>>
    THEN ImportResult("confirm_assets_dir", "CANCELLED", {"ERROR"}, dir, NoCheck,
                      "none", NoNested, dirs, 0)
    ELSE LET n == Dispatch(type, dir, dirs, count, fail)
             escaped == n.ret = "RAISED" \/ (strict /\ "ERROR" \in n.reports)
         IN  ImportResult("confirm_assets_dir",
                          IF escaped THEN "RAISED" ELSE "FINISHED",
                          IF escaped THEN {} ELSE {"INFO"},
                          dir, validate_file_extension(dir), OperatorOf(type),
                          Outcome(n.ret, n.reports), n.dirs, n.tmp)

\* ConfirmAssetsDir.execute.  The operator it dispatches runs to its end inside
\* the call; strict stands for a host that raises in the caller when the
\* operator called has reported an ERROR.
ConfirmAssetsDir_execute(dir, type, dirs, count, fail, strict) ==
    IF dir = <<>>
    THEN ImportResult("confirm_assets_dir", "CANCELLED", {"ERROR"}, dir, NoCheck,
                      "none", NoNested, dirs, 0)
    ELSE LET v == validate_file_extension(dir)
         IN  IF v.raised
             THEN ImportResult("confirm_assets_dir", "RAISED", {}, dir, v,
                               "none", NoNested, dirs, 0)
             ELSE IF ~v.valid
             THEN ImportResult("confirm_assets_dir", "CANCELLED", {"ERROR"}, dir, v,
                               "none", NoNested, dirs, 0)
             ELSE LET n == Dispatch(type, dir, dirs, count, fail)
                      escaped == n.ret = "RAISED" \/ (strict /\ "ERROR" \in n.reports)
                  IN  ImportResult("confirm_assets_dir",
                                   IF escaped THEN "RAISED" ELSE "FINISHED",
                                   IF escaped THEN {} ELSE {"INFO"},
                                   dir, v, OperatorOf(type),
                                   Outcome(n.ret, n.reports), n.dirs, n.tmp)

NoImport ==
    ImportResult("none", "NONE", {}, <<>>, NoCheck, "none", NoNested, {}, 0)

ImportIdle ==
    /\ assets_dir = <<>>
    /\ assets_type = "ZIP"
    /\ tempDirs = {}
    /\ tmpCount = 0
    /\ imp = NoImport

\* What an execution leaves: the directories on disk and the record of it.
\* Operators start when no other is running (imp = NoImport).
Executed(r) ==
    /\ imp' = [r EXCEPT !.dirs = {}]
    /\ tempDirs' = r.dirs
    /\ tmpCount' = IF r.tmp > 0 THEN r.tmp ELSE tmpCount

\* The user picks a file in the preferences, or empties the field.
SetAssetsDir ==
    /\ imp = NoImport
    /\ \E path \in Paths \cup {<<>>} : path # assets_dir /\ assets_dir' = path
    /\ UNCHANGED <<assets_type, tempDirs, tmpCount, imp>>

SetAssetsType ==
    /\ imp = NoImport
    /\ \E type \in AssetTypes : type # assets_type /\ assets_type' = type
    /\ UNCHANGED <<assets_dir, tempDirs, tmpCount, imp>>

\* The user presses "Import Assets".
ConfirmAssetsDir ==
    /\ imp = NoImport
    /\ tmpCount < MaxTempDirs
    /\ \E fail \in ImportFails, strict \in BOOLEAN :
          \E r \in {ConfirmAssetsDir_execute(assets_dir, assets_type, tempDirs,
                                             tmpCount, fail, strict)} :
              Executed(r)
    /\ UNCHANGED <<assets_dir, assets_type>>

\* The user runs "Import ZIP Assets" on a file chosen in the file browser.
ImportZIPAssets ==
    /\ imp = NoImport
    /\ tmpCount < MaxTempDirs
    /\ \E path \in Paths, fail \in ImportFails :
          \E r \in {ImportZIPAssets_execute(path, tempDirs, tmpCount, fail)} :
              Executed(ImportResult("import_zip_assets", r.ret, r.reports, path,
                                    NoCheck, "none", NoNested, r.dirs, r.tmp))
    /\ UNCHANGED <<assets_dir, assets_type>>

ImportBlendAssets ==
    /\ imp = NoImport
    /\ \E path \in Paths, fail \in {"none", "import"} :
          \E r \in {ImportBlendAssets_execute(path, fail)} :
              Executed(ImportResult("import_blend_assets", r.ret, r.reports, path,
                                    NoCheck, "none", NoNested, tempDirs, 0))
    /\ UNCHANGED <<assets_dir, assets_type>>

\* "Import FBX Assets" and "Import STL Assets".
ImportHostAssets ==
    /\ imp = NoImport
    /\ \E path \in Paths, fail \in {"none", "import"},
          name \in {"import_fbx_assets", "import_stl_assets"} :
          \E r \in {ImportHostAssets_execute(path, fail)} :
              Executed(ImportResult(name, r.ret, r.reports, path,
                                    NoCheck, "none", NoNested, tempDirs, 0))
    /\ UNCHANGED <<assets_dir, assets_type>>

\* The operator's reports have been shown and the interface waits for the
\* next command; the directories on disk stay as they are.
ImportDone ==
    /\ imp # NoImport
    /\ imp' = NoImport
    /\ UNCHANGED <<assets_dir, assets_type, tempDirs, tmpCount>>

ImportNext ==
    \/ ImportDone /\ UNCHANGED <<lifecycleVars, calc, remeshVars, renderVars, shaderVars>>
    \/ SetAssetsDir /\ UNCHANGED <<lifecycleVars, calc, remeshVars, renderVars, shaderVars>>
    \/ SetAssetsType /\ UNCHANGED <<lifecycleVars, calc, remeshVars, renderVars, shaderVars>>
    \/ ConfirmAssetsDir /\ UNCHANGED <<lifecycleVars, calc, remeshVars, renderVars, shaderVars>>
    \/ ImportZIPAssets /\ UNCHANGED <<lifecycleVars, calc, remeshVars, renderVars, shaderVars>>
    \/ ImportBlendAssets /\ UNCHANGED <<lifecycleVars, calc, remeshVars, renderVars, shaderVars>>
    \/ ImportHostAssets /\ UNCHANGED <<lifecycleVars, calc, remeshVars, renderVars, shaderVars>>

-----------------------------------------------------------------------------
(***************************************************************************)
(* Render tools: HDRI navigation, application and removal.  The world's    *)
(* node tree is a sequence of node types and a set of links between        *)
(* positions of that sequence.                                             *)
(***************************************************************************)

World(present, use_nodes, nodes, links) ==
    [present |-> present, use_nodes |-> use_nodes, nodes |-> nodes, links |-> links]

\* The world of a new scene.
DefaultWorld == World(TRUE, FALSE, <<"BACKGROUND", "OUTPUT_WORLD">>, {<<1, 2>>})

\* Worlds a user may have built before an operator runs.
Worlds ==
    { World(FALSE, FALSE, <<>>, {}),
      DefaultWorld,
      World(TRUE, TRUE, <<"BACKGROUND", "OUTPUT_WORLD">>, {<<1, 2>>}),
      World(TRUE, TRUE, <<"MAPPING", "BACKGROUND", "OUTPUT_WORLD">>, {<<2, 3>>}),
      World(TRUE, FALSE, <<"TEX_ENVIRONMENT", "BACKGROUND", "OUTPUT_WORLD">>,
            {<<1, 2>>, <<2, 3>>}),
      World(TRUE, TRUE, <<"BACKGROUND", "TEX_ENVIRONMENT", "TEX_ENVIRONMENT",
                          "TEX_ENVIRONMENT", "OUTPUT_WORLD">>,
            {<<2, 1>>, <<1, 5>>}),
      World(TRUE, TRUE, <<"TEX_COORD", "TEX_ENVIRONMENT", "MAPPING", "MIX_SHADER",
                          "TEX_ENVIRONMENT", "BACKGROUND", "BACKGROUND",
                          "OUTPUT_WORLD">>,
            {<<1, 3>>, <<3, 2>>, <<2, 6>>, <<5, 7>>, <<6, 4>>, <<7, 4>>, <<4, 8>>}) }

NodesOfType(w, type) == {i \in 1..Len(w.nodes) : w.nodes[i] = type}

\* next((node for node in nodes if node.type == type), None): 0 stands for None.
FirstOfType(w, type) ==
    IF NodesOfType(w, type) = {} THEN 0
    ELSE CHOOSE i \in NodesOfType(w, type) : \A j \in NodesOfType(w, type) : i <= j

\* nodes.remove for the nodes at the positions gone: their links go with
\* them and the later nodes move up.
nodes_remove(w, gone) ==
    LET keep == (1..Len(w.nodes)) \ gone
        at(i) == Cardinality({j \in keep : j <= i})
    IN  [w EXCEPT !.nodes = SelectSeq([i \in 1..Len(w.nodes) |->
                                          IF i \in gone THEN "" ELSE w.nodes[i]],
                                      LAMBDA t : t # ""),
                  !.links = {<<at(l[1]), at(l[2])>> :
                                l \in {m \in w.links : m[1] \in keep /\ m[2] \in keep}}]

nodes_clear(w) == [w EXCEPT !.nodes = <<>>, !.links = {}]

nodes_new(w, type) == [w EXCEPT !.nodes = Append(w.nodes, type)]

\* links.new between the first node of one type and the first node of another.
links_new(w, from, to) ==
    [w EXCEPT !.links = w.links \cup {<<FirstOfType(w, from), FirstOfType(w, to)>>}]

RenderResult(name, ret, reports, arg, world0, enum0) ==
    [name |-> name, ret |-> ret, reports |-> reports, arg |-> arg,
     world0 |-> world0, enum0 |-> enum0]

NoRender == RenderResult("none", "NONE", {}, "", DefaultWorld, "")

\* list(pcoll.keys()): the loaded previews in the order they were loaded.
hdri_list(pc, order) ==
    IF "hdri_previews" \notin DOMAIN pc THEN <<>>
    ELSE SelectSeq(order, LAMBDA n : n \in pc["hdri_previews"])

\* list.index, counted from 0.
index(list, x) == (CHOOSE i \in 1..Len(list) : list[i] = x) - 1

NavigateHDRI_execute_no_wrap(pc, order, current_hdri, direction) ==
    LET list == hdri_list(pc, order)
        current_index == index(list, current_hdri)
        next_index == Min(current_index + 1, Len(list) - 1)
        prev_index == Max(current_index - 1, 0)
    IN  IF list = <<>> THEN [ret |-> "CANCELLED", hdri_enum |-> current_hdri]
        ELSE IF current_hdri \notin Range(list)
        THEN [ret |-> "FINISHED", hdri_enum |-> list[1]]
        ELSE IF direction = "NEXT"
        THEN [ret |-> "FINISHED", hdri_enum |-> list[next_index + 1]]
        ELSE [ret |-> "FINISHED", hdri_enum |-> list[prev_index + 1]]

\* NavigateHDRI.execute: a missing or empty preview collection is falsy.
NavigateHDRI_execute(pc, order, current_hdri, direction) ==
    LET list == hdri_list(pc, order)
        current_index == index(list, current_hdri)
        next_index == (current_index + 1) % Len(list)
        prev_index == (current_index - 1 + Len(list)) % Len(list)
    IN  IF list = <<>> THEN [ret |-> "CANCELLED", hdri_enum |-> current_hdri]
        ELSE IF current_hdri \notin Range(list)
        THEN [ret |-> "FINISHED", hdri_enum |-> list[1]]
        ELSE IF direction = "NEXT"
        THEN [ret |-> "FINISHED", hdri_enum |-> list[next_index + 1]]
        ELSE [ret |-> "FINISHED", hdri_enum |-> list[prev_index + 1]]

\* AddOrApplyHDRI.execute once the file is found: the nodes are rebuilt
\* unless an environment texture exists, the image is loaded, and a mapping
\* node is added unless one exists.  A world of None and a file that is no
\* image raise, and nothing catches them.
apply_hdri_nodes(w, fail) ==
    IF ~w.present THEN [ret |-> "RAISED", reports |-> {}, world |-> w]
    ELSE LET w1 == [w EXCEPT !.use_nodes = TRUE]
             w2 == IF FirstOfType(w1, "TEX_ENVIRONMENT") # 0 THEN w1
                   ELSE links_new(
                            links_new(
                                nodes_new(nodes_new(nodes_new(nodes_clear(w1),
                                    "TEX_ENVIRONMENT"), "BACKGROUND"), "OUTPUT_WORLD"),
                                "TEX_ENVIRONMENT", "BACKGROUND"),
                            "BACKGROUND", "OUTPUT_WORLD")
             w3 == IF FirstOfType(w2, "MAPPING") # 0 THEN w2
                   ELSE links_new(
                            links_new(nodes_new(nodes_new(w2, "MAPPING"), "TEX_COORD"),
                                      "TEX_COORD", "MAPPING"),
                            "MAPPING", "TEX_ENVIRONMENT")
         IN  IF fail = "load" THEN [ret |-> "RAISED", reports |-> {}, world |-> w2]
             ELSE [ret |-> "FINISHED", reports |-> {"INFO"}, world |-> w3]

\* os.path.exists(hdri_path) for the path recorded when the preview was loaded.
hdri_file_found(pc, dir, hdri_name) ==
    /\ "hdri_paths" \in DOMAIN pc
    /\ hdri_name \in pc["hdri_paths"]
    /\ dir.exists
    /\ hdri_name \in dir.files

AddOrApplyHDRI_execute_nodes_first(pc, dir, current_hdri, w, name, fail) ==
    LET hdri_name == IF name # "" THEN name ELSE current_hdri
        w1 == IF w.present THEN [w EXCEPT !.use_nodes = TRUE] ELSE w
    IN  IF ~hdri_file_found(pc, dir, hdri_name)
        THEN [ret |-> "CANCELLED", reports |-> {"ERROR"}, world |-> w1]
        ELSE apply_hdri_nodes(w1, fail)

\* AddOrApplyHDRI.execute
AddOrApplyHDRI_execute(pc, dir, current_hdri, w, name, fail) ==
    LET hdri_name == IF name # "" THEN name ELSE current_hdri
    IN  IF ~hdri_file_found(pc, dir, hdri_name)
        THEN [ret |-> "CANCELLED", reports |-> {"ERROR"}, world |-> w]
        ELSE apply_hdri_nodes(w, fail)

\* The new Background and World Output nodes, linked.
reset_world(w) ==
    links_new(nodes_new(nodes_new(w, "BACKGROUND"), "OUTPUT_WORLD"),
              "BACKGROUND", "OUTPUT_WORLD")

\* Environment textures after the first one: the loop removes nodes from the
\* collection it iterates, so which of them it still visits is the host's choice.
LaterEnvironmentNodes(w) ==
    NodesOfType(w, "TEX_ENVIRONMENT") \ {FirstOfType(w, "TEX_ENVIRONMENT")}

RemoveHDRI_execute_no_clear(w, visited) ==
    LET env_tex_node_found == NodesOfType(w, "TEX_ENVIRONMENT") # {}
        removed == nodes_remove(w, {FirstOfType(w, "TEX_ENVIRONMENT")} \cup visited)
    IN  IF w.present /\ w.use_nodes
        THEN IF env_tex_node_found
             THEN [ret |-> "FINISHED", reports |-> {"INFO"},
                   world |-> reset_world(removed)]
             ELSE [ret |-> "CANCELLED", reports |-> {"INFO"}, world |-> w]
        ELSE [ret |-> "CANCELLED", reports |-> {"WARNING"}, world |-> w]

\* RemoveHDRI.execute
RemoveHDRI_execute(w, visited) ==
    LET env_tex_node_found == NodesOfType(w, "TEX_ENVIRONMENT") # {}
        removed == nodes_remove(w, {FirstOfType(w, "TEX_ENVIRONMENT")} \cup visited)
    IN  IF w.present /\ w.use_nodes
        THEN IF env_tex_node_found
             THEN [ret |-> "FINISHED", reports |-> {"INFO"},
                   world |-> reset_world(nodes_clear(removed))]
             ELSE [ret |-> "CANCELLED", reports |-> {"INFO"}, world |-> w]
        ELSE [ret |-> "CANCELLED", reports |-> {"WARNING"}, world |-> w]

\* The orders of the HDRI names.
Orders ==
    {o \in [1..Cardinality(HdriNames) -> HdriNames] :
        \A i, j \in DOMAIN o : o[i] = o[j] => i = j}

RenderIdle ==
    /\ hdri_enum = ""
    /\ listdir = <<"sky.hdr", "studio.exr", "dusk.hdr">>
    /\ world = DefaultWorld
    /\ rop = NoRender

\* The add-on is about to be enabled on a host of fixed behaviour, for every
\* content of the HDRI directory and every world the scene may hold.
RenderInit ==
    /\ registered = {}
    /\ sceneProps = {}
    /\ wmProps = {}
    /\ preview_collections = EmptyDict
    /\ load_post = 0
    /\ enabled = FALSE
    /\ cycles = 0
    /\ hostQuirks = {}
    /\ hdriDir \in {d \in HdriDirStates : d.thumbs \subseteq d.files}
    /\ listdir \in Orders
    /\ hdri_enum = ""
    /\ world \in Worlds
    /\ rop = NoRender

\* The user picks an HDRI in the panel's list.
SelectHDRI ==
    /\ enabled
    /\ rop = NoRender
    /\ \E n \in Range(hdri_list(preview_collections, listdir)) :
          n # hdri_enum /\ hdri_enum' = n
    /\ UNCHANGED <<listdir, world, rop>>

\* The user runs "Navigate HDRI".
NavigateHDRI ==
    /\ enabled
    /\ rop = NoRender
    /\ \E direction \in {"NEXT", "PREV"} :
          \E r \in {NavigateHDRI_execute(preview_collections, listdir, hdri_enum,
                                         direction)} :
              /\ hdri_enum' = r.hdri_enum
              /\ rop' = RenderResult("navigate_hdri", r.ret, {}, direction, world,
                                     hdri_enum)
    /\ UNCHANGED <<listdir, world>>

\* The user runs "Add or Apply HDRI", from the panel (no name given) or with
\* a name.
AddOrApplyHDRI ==
    /\ enabled
    /\ rop = NoRender
    /\ \E name \in HdriNames \cup {"", "ghost.hdr"}, fail \in {"none", "load"} :
          \E r \in {AddOrApplyHDRI_execute(preview_collections, hdriDir, hdri_enum,
                                           world, name, fail)} :
              /\ world' = r.world
              /\ rop' = RenderResult("add_or_apply_hdri", r.ret, r.reports, name,
                                     world, hdri_enum)
    /\ UNCHANGED <<hdri_enum, listdir>>

\* The user runs "Remove HDRI".
RemoveHDRI ==
    /\ enabled
    /\ rop = NoRender
    /\ \E visited \in SUBSET LaterEnvironmentNodes(world) :
          \E r \in {RemoveHDRI_execute(world, visited)} :
              /\ world' = r.world
              /\ rop' = RenderResult("remove_hdri", r.ret, r.reports, "", world,
                                     hdri_enum)
    /\ UNCHANGED <<hdri_enum, listdir>>

\* An HDRI file is deleted from the add-on's directory while it is enabled.
DeleteHdriFile ==
    /\ enabled
    /\ rop = NoRender
    /\ \E f \in hdriDir.files : hdriDir' = [hdriDir EXCEPT !.files = @ \ {f}]
    /\ UNCHANGED <<registered, sceneProps, wmProps, preview_collections, load_post,
                   enabled, cycles, hostQuirks>>

\* The operator's reports have been shown.
RenderDone ==
    /\ rop # NoRender
    /\ rop' = NoRender
    /\ UNCHANGED <<hdri_enum, listdir, world>>

RenderNext ==
    \/ Register /\ UNCHANGED <<calc, remeshVars, importVars, renderVars, shaderVars>>
    \/ SelectHDRI /\ UNCHANGED <<lifecycleVars, calc, remeshVars, importVars, shaderVars>>
    \/ NavigateHDRI /\ UNCHANGED <<lifecycleVars, calc, remeshVars, importVars, shaderVars>>
    \/ AddOrApplyHDRI /\ UNCHANGED <<lifecycleVars, calc, remeshVars, importVars, shaderVars>>
    \/ RemoveHDRI /\ UNCHANGED <<lifecycleVars, calc, remeshVars, importVars, shaderVars>>
    \/ DeleteHdriFile /\ UNCHANGED <<calc, remeshVars, importVars, renderVars, shaderVars>>
    \/ RenderDone /\ UNCHANGED <<lifecycleVars, calc, remeshVars, importVars, shaderVars>>

-----------------------------------------------------------------------------
(***************************************************************************)
(* Shader effects.  Data-block names are strings; the host keeps the names *)
(* of one kind unique by appending a numeric suffix.  A material slot      *)
(* holds a material name, "" when it is empty; a modifier holds the name   *)
(* of its node group, "" when it has none.  made_for records the material  *)
(* an outline modifier was created for.                                    *)
(***************************************************************************)

Modifier(name, node_group, made_for) ==
    [name |-> name, type |-> "NODES", node_group |-> node_group, made_for |-> made_for]

ShaderObject(type, slots, modifiers) ==
    [type |-> type, slots |-> slots, active_material_index |-> 1,
     modifiers |-> modifiers]

\* The scene the shader operators start from: two meshes that share a
\* material, a light, a mesh without material, and a mesh the user gave a
\* "Dither" node group twice and the library's "Dither" material.
ShaderScene ==
    << ShaderObject("MESH", <<"MatA">>, <<>>),
       ShaderObject("MESH", <<"MatA", "MatB">>, <<>>),
       ShaderObject("LIGHT", <<>>, <<>>),
       ShaderObject("MESH", <<>>, <<>>),
       ShaderObject("MESH", <<"MatB", "Dither">>,
                    <<Modifier("GeometryNodes", "Dither", ""),
                      Modifier("GeometryNodes.001", "Dither", "")>>) >>

SHADER_EFFECTS ==
    [OUTLINE |-> [file |-> "CreateOutlineSetup.blend", group |-> "Outline Effects",
                  material |-> "Outline Material"],
     CEL |-> [file |-> "CelShadingSetup.blend", group |-> "None",
              material |-> "Cel Shading (EEVEE)"],
     DITHER |-> [file |-> "DitherSetup.blend", group |-> "Dither",
                 material |-> "Dither"]]

Suffixes == <<"", ".001", ".002", ".003", ".004", ".005", ".006", ".007">>

\* The name the host gives a data-block that asks for base.
unique_name(names, base) ==
    LET free == {k \in 1..Len(Suffixes) : (base \o Suffixes[k]) \notin names}
    IN  base \o Suffixes[CHOOSE k \in free : \A j \in free : k <= j]

\* The data the shader operators read and change.
ShaderState(objs, groups, mats, fx) ==
    [objects |-> objs, node_groups |-> groups, materials |-> mats, fx |-> fx]

ShaderOutcome(ret, reports, st) == [ret |-> ret, reports |-> reports, st |-> st]

IsMesh(st, a) == a > 0 /\ st.objects[a].type = "MESH"

\* obj.active_material: "" stands for None.
active_material(obj) ==
    IF obj.slots = <<>> THEN "" ELSE obj.slots[obj.active_material_index]

\* bpy.data.libraries.load of a library file that holds what the add-on
\* looks up in it; the copies a repeated load makes get names nothing reads.
libraries_load(st, lib, file) ==
    IF ~lib.complete THEN st
    ELSE IF file = "CreateOutlineSetup.blend"
    THEN [st EXCEPT !.node_groups = @ \cup {"Outline Effects"},
                    !.materials = @ \cup {"Outline Color", "Rim Color"}]
    ELSE IF file = "CelShadingSetup.blend"
    THEN [st EXCEPT !.materials = @ \cup {"Cel Shading (EEVEE)"}]
    ELSE [st EXCEPT !.materials = @ \cup {"Dither"}]

HasOutlineFor(obj, mat) ==
    \E k \in 1..Len(obj.modifiers) :
        /\ obj.modifiers[k].type = "NODES"
        /\ obj.modifiers[k].node_group # ""
        /\ obj.modifiers[k].node_group = "Outline_" \o mat

\* The try block of CreateOutline.execute: ret is "RAISED" when a host call
\* raises, after the changes made so far.
outline_try(st, a, fail) ==
    LET obj == st.objects[a]
        mat == active_material(obj)
        group == unique_name(st.node_groups, "Outline_" \o mat)
        st1 == [st EXCEPT !.node_groups = @ \cup {group}]
        mod_name == unique_name({obj.modifiers[k].name : k \in 1..Len(obj.modifiers)},
                                "Outline_" \o mat)
        st2 == [st1 EXCEPT !.objects[a].modifiers = Append(@, Modifier(mod_name, group, mat))]
        have == {"Outline Color", "Rim Color"} \subseteq st2.materials
        outline == unique_name(st2.materials, "FX Outline_" \o mat)
        rim == unique_name(st2.materials \cup {outline}, "FX Rim_" \o mat)
        st3 == [st2 EXCEPT !.materials = @ \cup {outline, rim}]
        st4 == [st3 EXCEPT !.objects[a].slots = @ \o <<outline, rim>>,
                           !.fx = @ \cup {<<a, "OUTLINE", "modifier", group>>,
                                          <<a, "OUTLINE", "material", outline>>,
                                          <<a, "OUTLINE", "material", rim>>}]
        st5 == [st2 EXCEPT !.fx = @ \cup {<<a, "OUTLINE", "modifier", group>>}]
    IN  IF fail = "copy" THEN ShaderOutcome("RAISED", {}, st)
        ELSE IF fail = "modifier" THEN ShaderOutcome("RAISED", {}, st1)
        ELSE IF ~have THEN ShaderOutcome("FINISHED", {"INFO"}, st5)
        ELSE IF fail = "append" THEN ShaderOutcome("RAISED", {}, st3)
        ELSE ShaderOutcome("FINISHED", {"INFO"}, st4)

\* CreateOutline.execute
CreateOutline_execute(st, a, lib, fail) ==
    LET obj == st.objects[a]
        loaded == libraries_load(st, lib, "CreateOutlineSetup.blend")
        t == outline_try(loaded, a, fail)
    IN  IF ~IsMesh(st, a) THEN ShaderOutcome("CANCELLED", {"ERROR"}, st)
        ELSE IF obj.slots = <<>> THEN ShaderOutcome("CANCELLED", {"ERROR"}, st)
        ELSE IF active_material(obj) = "" THEN ShaderOutcome("CANCELLED", {"ERROR"}, st)
        ELSE IF HasOutlineFor(obj, active_material(obj))
        THEN ShaderOutcome("CANCELLED", {"WARNING"}, st)
        ELSE IF "CreateOutlineSetup.blend" \notin lib.files
        THEN ShaderOutcome("CANCELLED", {"ERROR"}, st)
        ELSE IF "Outline Effects" \notin loaded.node_groups
        THEN ShaderOutcome("CANCELLED", {"WARNING"}, loaded)
        ELSE IF t.ret = "RAISED" THEN ShaderOutcome("CANCELLED", {"ERROR"}, t.st)
        ELSE t

\* ApplyCelShading.execute and ApplyDitherFX.execute: the copy of the
\* library's material, renamed with the prefix "FX ", replaces the first slot.
\* Nothing catches what the library loader raises.
apply_material_fx(st, a, lib, effect, fail) ==
    LET obj == st.objects[a]
        file == SHADER_EFFECTS[effect].file
        name == SHADER_EFFECTS[effect].material
        loaded == libraries_load(st, lib, file)
        new_material == unique_name(loaded.materials, "FX " \o name)
    IN  IF ~IsMesh(st, a) THEN ShaderOutcome("CANCELLED", {"ERROR"}, st)
        ELSE IF obj.slots = <<>> THEN ShaderOutcome("CANCELLED", {"ERROR"}, st)
        ELSE IF file \notin lib.files THEN ShaderOutcome("CANCELLED", {"ERROR"}, st)
        ELSE IF fail = "load" THEN ShaderOutcome("RAISED", {}, st)
        ELSE IF ~lib.complete THEN ShaderOutcome("CANCELLED", {"ERROR"}, st)
        ELSE ShaderOutcome("FINISHED", {"INFO"},
                 [loaded EXCEPT !.materials = @ \cup {new_material},
                                !.objects[a].slots[1] = new_material,
                                !.fx = @ \cup {<<a, effect, "material", new_material>>}])

ApplyCelShading_execute(st, a, lib, fail) == apply_material_fx(st, a, lib, "CEL", fail)

ApplyDitherFX_execute(st, a, lib, fail) == apply_material_fx(st, a, lib, "DITHER", fail)

\* The sequence s without the positions in gone.
Without(s, gone) ==
    LET keep == (1..Len(s)) \ gone
        nth(n) == CHOOSE i \in keep : Cardinality({j \in keep : j <= i}) = n
    IN  [n \in 1..Cardinality(keep) |-> s[nth(n)]]

\* Positions of the modifiers RemoveShaderEffect looks for.
EffectModifiers(obj, effect_type) ==
    {k \in 1..Len(obj.modifiers) :
        /\ obj.modifiers[k].type = "NODES"
        /\ obj.modifiers[k].node_group # ""
        /\ obj.modifiers[k].node_group = SHADER_EFFECTS[effect_type].group}

\* Positions of the slots RemoveShaderEffect looks for.
EffectSlots(obj, effect_type) ==
    {i \in 1..Len(obj.slots) :
        obj.slots[i] # "" /\ obj.slots[i] = SHADER_EFFECTS[effect_type].material}

First(set) == CHOOSE i \in set : \A j \in set : i <= j

\* RemoveShaderEffect.execute: modifiers are removed from the collection
\* the loop iterates, so the first match is removed and which later ones the
\* loop still visits is the host's choice; then the first slot that holds the
\* effect's material is made active and removed.
RemoveShaderEffect_execute(st, a, effect_type, visited) ==
    LET obj == st.objects[a]
        mods == EffectModifiers(obj, effect_type)
        gone == IF mods = {} THEN {} ELSE {First(mods)} \cup (visited \cap mods)
        slots == EffectSlots(obj, effect_type)
        st1 == [st EXCEPT !.objects[a].modifiers = Without(@, gone)]
        st2 == IF slots = {} THEN st1
               ELSE [st1 EXCEPT !.objects[a].slots = Without(@, {First(slots)}),
                                !.objects[a].active_material_index =
                                    Max(1, Min(First(slots), Len(obj.slots) - 1))]
    IN  IF ~IsMesh(st, a) THEN ShaderOutcome("CANCELLED", {"ERROR"}, st)
        ELSE IF effect_type \notin DOMAIN SHADER_EFFECTS
        THEN ShaderOutcome("CANCELLED", {"ERROR"}, st)
        ELSE ShaderOutcome("FINISHED", {"INFO"}, st2)

\* AddCheckerTexture.execute
AddCheckerTexture_execute(st, a) ==
    LET mat == unique_name(st.materials, "Checker_Material")
        st1 == [st EXCEPT !.materials = @ \cup {mat}]
    IN  IF IsMesh(st, a)
        THEN ShaderOutcome("FINISHED", {"INFO"},
                 IF st.objects[a].slots # <<>>
                 THEN [st1 EXCEPT !.objects[a].slots[1] = mat]
                 ELSE [st1 EXCEPT !.objects[a].slots = <<mat>>])
        ELSE ShaderOutcome("FINISHED", {"ERROR"}, st)

\* EditImageThumbnail.execute
EditImageThumbnail_execute(st, area, image) ==
    IF area /\ image THEN ShaderOutcome("FINISHED", {"INFO"}, st)
    ELSE ShaderOutcome("FINISHED", {"ERROR"}, st)

ShaderResult(name, ret, reports, obj, arg, before) ==
    [name |-> name, ret |-> ret, reports |-> reports, obj |-> obj, arg |-> arg,
     before |-> before]

NoShaderOp == ShaderResult("none", "NONE", {}, 0, "", ShaderState(<<>>, {}, {}, {}))

LibraryFiles == {SHADER_EFFECTS[e].file : e \in DOMAIN SHADER_EFFECTS}

\* The library files as installed, missing, or without the data looked up.
Libraries ==
    { [files |-> LibraryFiles, complete |-> TRUE],
      [files |-> {}, complete |-> TRUE],
      [files |-> LibraryFiles, complete |-> FALSE] }

ShaderIdle ==
    /\ shaded = <<>>
    /\ active_object = 0
    /\ node_groups = {}
    /\ materials = {}
    /\ library = [files |-> LibraryFiles, complete |-> TRUE]
    /\ applied_fx = {}
    /\ shader_ops = 0
    /\ sop = NoShaderOp

ShaderInit ==
    /\ shaded = ShaderScene
    /\ active_object = 1
    /\ node_groups = {"Dither"}
    /\ materials = {"MatA", "MatB", "Dither"}
    /\ library \in Libraries
    /\ applied_fx = {}
    /\ shader_ops = 0
    /\ sop = NoShaderOp

CurrentShaderState == ShaderState(shaded, node_groups, materials, applied_fx)

\* What an execution of the operator name leaves.
Ran(name, arg, r) ==
    /\ shaded' = r.st.objects
    /\ node_groups' = r.st.node_groups
    /\ materials' = r.st.materials
    /\ applied_fx' = r.st.fx
    /\ shader_ops' = shader_ops + 1
    /\ sop' = ShaderResult(name, r.ret, r.reports, active_object, arg,
                           CurrentShaderState)
    /\ UNCHANGED <<active_object, library>>

CanRun == sop = NoShaderOp /\ shader_ops < MaxShaderOps

\* The user clicks an object, or clicks away.
SetActiveObject ==
    /\ sop = NoShaderOp
    /\ \E a \in 0..Len(shaded) : a # active_object /\ active_object' = a
    /\ UNCHANGED <<shaded, node_groups, materials, library, applied_fx,
                   shader_ops, sop>>

\* The user picks another material slot of the active object.
SetActiveMaterial ==
    /\ sop = NoShaderOp
    /\ active_object > 0
    /\ \E i \in 1..Len(shaded[active_object].slots) :
          /\ i # shaded[active_object].active_material_index
          /\ shaded' = [shaded EXCEPT ![active_object].active_material_index = i]
    /\ UNCHANGED <<active_object, node_groups, materials, library, applied_fx,
                   shader_ops, sop>>

CreateOutline ==
    /\ CanRun
    /\ \E fail \in {"none", "copy", "modifier", "append"} :
          \E r \in {CreateOutline_execute(CurrentShaderState, active_object,
                                          library, fail)} :
              Ran("create_outline", "OUTLINE", r)

ApplyCelShading ==
    /\ CanRun
    /\ \E fail \in {"none", "load"} :
          \E r \in {ApplyCelShading_execute(CurrentShaderState, active_object,
                                            library, fail)} :
              Ran("apply_cel_shading", "CEL", r)

ApplyDitherFX ==
    /\ CanRun
    /\ \E fail \in {"none", "load"} :
          \E r \in {ApplyDitherFX_execute(CurrentShaderState, active_object,
                                          library, fail)} :
              Ran("dither_fx", "DITHER", r)

RemoveShaderEffect ==
    /\ CanRun
    /\ \E effect_type \in {"OUTLINE", "CEL", "DITHER", ""}, visited \in SUBSET (2..3) :
          \E r \in {RemoveShaderEffect_execute(CurrentShaderState, active_object,
                                               effect_type, visited)} :
              Ran("remove_shader_effect", effect_type, r)

AddCheckerTexture ==
    /\ CanRun
    /\ \E r \in {AddCheckerTexture_execute(CurrentShaderState, active_object)} :
          Ran("add_checker_texture", "", r)

EditImageThumbnail ==
    /\ CanRun
    /\ \E area \in BOOLEAN, image \in BOOLEAN :
          \E r \in {EditImageThumbnail_execute(CurrentShaderState, area, image)} :
              Ran("edit_image", "", r)

\* The operator's reports have been shown.
ShaderDone ==
    /\ sop # NoShaderOp
    /\ sop' = NoShaderOp
    /\ UNCHANGED <<shaded, active_object, node_groups, materials, library,
                   applied_fx, shader_ops>>

ShaderNext ==
    \/ SetActiveObject /\ UNCHANGED <<lifecycleVars, calc, remeshVars, importVars, renderVars>>
    \/ SetActiveMaterial /\ UNCHANGED <<lifecycleVars, calc, remeshVars, importVars, renderVars>>
    \/ CreateOutline /\ UNCHANGED <<lifecycleVars, calc, remeshVars, importVars, renderVars>>
    \/ ApplyCelShading /\ UNCHANGED <<lifecycleVars, calc, remeshVars, importVars, renderVars>>
    \/ ApplyDitherFX /\ UNCHANGED <<lifecycleVars, calc, remeshVars, importVars, renderVars>>
    \/ RemoveShaderEffect /\ UNCHANGED <<lifecycleVars, calc, remeshVars, importVars, renderVars>>
    \/ AddCheckerTexture /\ UNCHANGED <<lifecycleVars, calc, remeshVars, importVars, renderVars>>
    \/ EditImageThumbnail /\ UNCHANGED <<lifecycleVars, calc, remeshVars, importVars, renderVars>>
    \/ ShaderDone /\ UNCHANGED <<lifecycleVars, calc, remeshVars, importVars, renderVars>>

-----------------------------------------------------------------------------
(***************************************************************************)
(* Specifications: one per part of the add-on, the other parts at rest.    *)
(***************************************************************************)

\* The add-on is about to be enabled for the first time.
LifecycleStart == LifecycleInit /\ NumericIdle /\ RemeshIdle /\ ImportIdle /\ RenderIdle /\ ShaderIdle

LifecycleSpec == LifecycleStart /\ [][LifecycleNext]_vars

\* A scene is open and nothing has been remeshed.
RemeshStart == LifecycleIdle /\ NumericIdle /\ RemeshInit /\ ImportIdle /\ RenderIdle /\ ShaderIdle

RemeshSpec == RemeshStart /\ [][RemeshNext]_vars

\* Nothing has run: the state the import and the numeric parts start from.
AtRest == LifecycleIdle /\ NumericIdle /\ RemeshIdle /\ ImportIdle /\ RenderIdle /\ ShaderIdle

ImportSpec == AtRest /\ [][ImportNext]_vars

NumericSpec == AtRest /\ [][NumericNext]_vars

\* The add-on is about to be enabled and no render operator has run.
RenderStart == RenderInit /\ NumericIdle /\ RemeshIdle /\ ImportIdle /\ ShaderIdle

RenderSpec == RenderStart /\ [][RenderNext]_vars

\* A scene is open and no shader operator has run.
ShaderStart ==
    LifecycleIdle /\ NumericIdle /\ RemeshIdle /\ ImportIdle /\ RenderIdle /\ ShaderInit

ShaderSpec == ShaderStart /\ [][ShaderNext]_vars

\* C3: remeshing is applied at most once per object.  An execution on an active
\* object that carries "RemeshApplied" returns CANCELLED and changes no object;
\* after a FINISHED execution the hidden original and the new active duplicate
\* both carry the key; no object is the source of more than one FINISHED remesh.
C3_FinishedMarksBoth ==
    (op.name = "execute" /\ op.ret = "FINISHED") =>
        /\ objects[op.src].applied /\ objects[op.src].hidden
        /\ op.dup = Len(objects) /\ objects[op.dup].applied

C3_AtMostOnce == \A i \in 1..Len(objects) : objects[i].remeshes <= 1

C3_ExecuteStep ==
    (op'.tick # op.tick /\ op'.name = "execute") =>
        /\ (active > 0 /\ objects[active].applied) =>
               op'.ret = "CANCELLED" /\ objects' = objects /\ active' = active
        /\ op'.ret = "FINISHED" =>
               active' = op'.dup /\ op'.src = active /\ ~objects[active].applied

C3_RemeshOncePerObject ==
    [](C3_FinishedMarksBoth /\ C3_AtMostOnce) /\ [][C3_ExecuteStep]_vars

\* C3 witness: one object has been the source of a FINISHED remesh and a later
\* execution on an object carrying the key was turned down with a WARNING.
C3_Witness ==
    /\ op.name = "execute" /\ op.ret = "CANCELLED" /\ op.reports = {"WARNING"}
    /\ objects[op.src].remeshes = 1

\* C4: when a step of execute after the two precondition checks raises, the
\* operator returns CANCELLED, reports an ERROR and stores the error in the
\* log; the exception never leaves the operator and FINISHED is not returned.
C4_RaiseIsCancelled ==
    op.name = "execute" =>
        /\ op.ret \in {"CANCELLED", "FINISHED"}
        /\ op.raisedAt # "none" =>
               /\ op.ret = "CANCELLED"
               /\ "ERROR" \in op.reports
               /\ advanced_remesh_log = "error"

\* C4 witness: the last step, the performance report, raised after the
\* duplicate had been made, and the operator returned CANCELLED.
C4_Witness ==
    op.name = "execute" /\ op.raisedAt = "report" /\ op.dup > 0 /\ op.ret = "CANCELLED"

\* C5: every octree depth computed for a REMESH modifier is an integer in 2..8.
C5_OctreeDepthInRange ==
    calc.fn \in {"octree_depth", "dd_octree_depth"} =>
        calc.den = 1 /\ calc.num \in 2..8

\* C5 witness: a mesh of zero polygons whose depth is clamped at max_depth.
C5_Witness ==
    calc.fn = "octree_depth" /\ calc.b = 0 /\ calc.a > 0 /\ calc.num = 8

\* C6: every voxel size computed for a REMESH modifier lies between
\* min_size 0.01 and max_size 0.1 inclusive.
C6_VoxelSizeInRange ==
    calc.fn \in {"voxel_size", "dd_voxel_size"} =>
        /\ calc.den <= 100 * calc.num
        /\ 10 * calc.num <= calc.den

\* C7: for a fixed polygon count the target quad count does not grow with
\* detail_preservation.
C7_QuadCountNonIncreasing ==
    calc.fn = "quad_count_pair" => calc.num2 <= calc.num

-----------------------------------------------------------------------------
(***************************************************************************)
(* Asset import: claims C8 to C10, checked under ImportSpec.               *)
(***************************************************************************)

Confirmed == imp.name = "confirm_assets_dir"

ReportedInvalid == imp.path # <<>> /\ ~imp.check.raised /\ ~imp.check.valid

\* C8: ConfirmAssetsDir.execute invokes no import operator and returns
\* CANCELLED with an ERROR report whenever assets_dir is empty or
\* validate_file_extension(assets_dir) reports the file invalid; an import
\* operator is dispatched only for a path that passed validation.
C8_ConfirmValidatesBeforeImport ==
    Confirmed =>
        /\ (imp.path = <<>> \/ ReportedInvalid) =>
              /\ imp.dispatched = "none"
              /\ imp.nested = NoNested
              /\ imp.ret = "CANCELLED"
              /\ "ERROR" \in imp.reports
        /\ imp.dispatched # "none" =>
              /\ imp.path # <<>>
              /\ imp.check = validate_file_extension(imp.path)
              /\ imp.check.valid
              /\ ~imp.check.raised

\* An archive holding a text file was confirmed and refused.
C8_Witness ==
    /\ Confirmed
    /\ ReportedInvalid
    /\ imp.check.message = "Invalid files in ZIP"
    /\ imp.ret = "CANCELLED"
    /\ imp.dispatched = "none"

SupportedExt == {"blend", "fbx", "stl"}

\* What the claim expects of the file at path, read off the sample's own
\* description of the file and not off the characters of its name.
ExpectedValid(path) ==
    LET f == FileAt(path)
    IN  /\ f.exists
        /\ \/ f.ext \in SupportedExt
           \/ /\ f.ext = "zip"
              /\ f.content = "zip"
              /\ \A i \in 1..Len(f.entries) : f.entries[i].ext \in SupportedExt

ZipReturned ==
    \/ imp.name = "import_zip_assets" /\ imp.ret \in {"FINISHED", "CANCELLED"}
    \/ /\ imp.dispatched = "import_zip_assets"
       /\ imp.nested.ret \in {"FINISHED", "CANCELLED"}

\* C10: after ImportZIPAssets.execute returns FINISHED or CANCELLED, the
\* temporary extraction directory it created no longer exists.
C10_TempDirRemoved ==
    ZipReturned => (imp.tmp > 0 /\ imp.tmp \notin tempDirs)

\* An import of a corrupt archive was cancelled and its directory is gone.
C10_Witness ==
    /\ imp.name = "import_zip_assets"
    /\ imp.ret = "CANCELLED"
    /\ "ERROR" \in imp.reports
    /\ imp.tmp > 0
    /\ imp.tmp \notin tempDirs

-----------------------------------------------------------------------------
(***************************************************************************)
(* Render tools: claims C11, C13 and C14, checked under RenderSpec.        *)
(***************************************************************************)

Navigated == rop.name = "navigate_hdri"

LoadedList == hdri_list(preview_collections, listdir)

\* C11: with a non-empty list of length L and the selection at index i, NEXT
\* selects index (i+1) mod L and PREV index (i-1) mod L; a selection that is
\* not in the list becomes the first entry; with no preview loaded the
\* operator returns CANCELLED and the selection stays.
C11_NavigateWraps ==
    Navigated =>
        IF LoadedList = <<>>
        THEN rop.ret = "CANCELLED" /\ hdri_enum = rop.enum0
        ELSE /\ rop.ret = "FINISHED"
             /\ IF rop.enum0 \notin Range(LoadedList)
                THEN hdri_enum = LoadedList[1]
                ELSE \E i, j \in 0..(Len(LoadedList) - 1) :
                        /\ LoadedList[i + 1] = rop.enum0
                        /\ LoadedList[j + 1] = hdri_enum
                        /\ rop.arg = "NEXT" => j = (i + 1) % Len(LoadedList)
                        /\ rop.arg = "PREV" => i = (j + 1) % Len(LoadedList)

\* C11: NEXT followed at once by PREV restores the selection.
C11_NextThenPrevRestores ==
    [][(Navigated /\ rop.arg = "NEXT" /\ rop.enum0 \in Range(LoadedList)
            /\ RenderDone) =>
        NavigateHDRI_execute(preview_collections, listdir, hdri_enum, "PREV").hdri_enum
            = rop.enum0]_vars

C11_NavigateHDRI == []C11_NavigateWraps /\ C11_NextThenPrevRestores

\* PREV from the first of three entries selected the last.
C11_Witness ==
    /\ Navigated
    /\ rop.arg = "PREV"
    /\ Len(LoadedList) = 3
    /\ rop.enum0 = LoadedList[1]
    /\ hdri_enum = LoadedList[3]

HdriRemoved == rop.name = "remove_hdri"

HadEnvironmentTexture ==
    /\ rop.world0.present
    /\ rop.world0.use_nodes
    /\ NodesOfType(rop.world0, "TEX_ENVIRONMENT") # {}

\* C13: when the world uses nodes and its tree holds one or more
\* TEX_ENVIRONMENT nodes, RemoveHDRI returns FINISHED and leaves exactly one
\* Background node linked to one World Output node and no other node.
C13_RemoveHDRIResetsWorld ==
    (HdriRemoved /\ HadEnvironmentTexture) =>
        /\ rop.ret = "FINISHED"
        /\ Len(world.nodes) = 2
        /\ Cardinality(NodesOfType(world, "BACKGROUND")) = 1
        /\ Cardinality(NodesOfType(world, "OUTPUT_WORLD")) = 1
        /\ world.links = {<<FirstOfType(world, "BACKGROUND"),
                            FirstOfType(world, "OUTPUT_WORLD")>>}
        /\ world.present /\ world.use_nodes

\* A tree of eight nodes with two environment textures was reset.
C13_Witness ==
    /\ HdriRemoved
    /\ HadEnvironmentTexture
    /\ Len(rop.world0.nodes) = 8
    /\ rop.ret = "FINISHED"
    /\ Len(world.nodes) = 2

HdriApplied == rop.name = "add_or_apply_hdri"

SelectedName == IF rop.arg # "" THEN rop.arg ELSE rop.enum0

NoEntry ==
    \/ "hdri_paths" \notin DOMAIN preview_collections
    \/ SelectedName \notin preview_collections["hdri_paths"]

FileMissing == ~hdriDir.exists \/ SelectedName \notin hdriDir.files

\* C14: AddOrApplyHDRI.execute returns CANCELLED with an ERROR report and
\* leaves the world unchanged whenever the selected name has no entry in
\* hdri_paths or the file at its path does not exist.
C14_MissingHdriCancels ==
    (HdriApplied /\ (NoEntry \/ FileMissing)) =>
        /\ rop.ret = "CANCELLED"
        /\ "ERROR" \in rop.reports
        /\ world = rop.world0

\* A loaded HDRI whose file was deleted afterwards was refused on a world
\* that does not use nodes.
C14_Witness ==
    /\ HdriApplied
    /\ ~NoEntry
    /\ FileMissing
    /\ rop.world0 = DefaultWorld
    /\ rop.ret = "CANCELLED"

-----------------------------------------------------------------------------
(***************************************************************************)
(* Claims C16 (under LifecycleSpec) and C18 (under RemeshSpec).            *)
(***************************************************************************)

\* C16: the load_post handler list holds the add-on's handler exactly once
\* while the add-on is registered and not at all after unregister().
C16_HandlerInstalledOnce ==
    /\ enabled => load_post = 1
    /\ (~enabled /\ cycles > 0) => load_post = 0

C18_CancelledStep ==
    (op'.tick # op.tick /\ op'.name = "execute" /\ op'.ret = "CANCELLED") =>
        /\ Len(objects') = Len(objects)
        /\ \A i \in 1..Len(objects) :
              /\ objects'[i].hidden = objects[i].hidden
              /\ objects'[i].applied = objects[i].applied
        /\ active' = active
        /\ remesh_performance_metrics' = remesh_performance_metrics

\* C18: whenever AdvancedRemesher.execute returns CANCELLED, the source object
\* is not hidden and has not gained "RemeshApplied", and no duplicate has been
\* added to the scene; only advanced_remesh_log may have changed.
C18_CancelledLeavesScene == [][C18_CancelledStep]_vars

-----------------------------------------------------------------------------
(***************************************************************************)
(* Shader effects: claims C12, C15 and C17, checked under ShaderSpec.      *)
(***************************************************************************)

\* What the apply operator of the effect added to the object, as recorded
\* when it returned FINISHED.
AddedBy(obj, effect, kind) ==
    {f[4] : f \in {g \in applied_fx : g[1] = obj /\ g[2] = effect /\ g[3] = kind}}

\* C12: after the apply operator of an effect type returned FINISHED on a
\* mesh object and RemoveShaderEffect with that effect type then returns
\* FINISHED, the object carries none of the modifiers and none of the
\* materials that the apply operator added.
C12_RemoveRemovesEffect ==
    (sop.name = "remove_shader_effect" /\ sop.ret = "FINISHED") =>
        /\ \A k \in 1..Len(shaded[sop.obj].modifiers) :
              shaded[sop.obj].modifiers[k].node_group
                  \notin AddedBy(sop.obj, sop.arg, "modifier")
        /\ \A i \in 1..Len(shaded[sop.obj].slots) :
              shaded[sop.obj].slots[i] \notin AddedBy(sop.obj, sop.arg, "material")

OutlinesFor(obj, mat) ==
    {k \in 1..Len(obj.modifiers) : obj.modifiers[k].made_for = mat}

\* C15: no object carries more than one outline modifier for the same
\* material, and CreateOutline on an object that already has the outline
\* modifier for its active material returns CANCELLED and adds no modifier,
\* node group or material.
C15_OutlineAtMostOnce ==
    /\ \A a \in 1..Len(shaded) : \A mat \in materials :
          Cardinality(OutlinesFor(shaded[a], mat)) <= 1
    /\ (/\ sop.name = "create_outline"
        /\ sop.obj > 0
        /\ OutlinesFor(sop.before.objects[sop.obj],
                       active_material(sop.before.objects[sop.obj])) # {}) =>
          /\ sop.ret = "CANCELLED"
          /\ CurrentShaderState = sop.before

\* C17: an execution that emits an ERROR report returns CANCELLED, and an
\* execution that returns FINISHED has emitted no ERROR report.
C17_StatusMatchesReports ==
    sop.ret \in {"FINISHED", "CANCELLED"} =>
        /\ "ERROR" \in sop.reports => sop.ret = "CANCELLED"
        /\ sop.ret = "FINISHED" => "ERROR" \notin sop.reports

====
